---- MODULE Spec2Model ----
(***************************************************************************)
(* Model of the group-fairness bias detector of jenkins-ml-pipeline:       *)
(* ml-components/bias-detection/alibi_detect_config.py, class              *)
(* MLModelBiasDetector.  One detector is constructed, and detect_bias is   *)
(* called on one batch (predictions, true labels, a table of protected     *)
(* attributes, optional prediction probabilities).                         *)
(*                                                                         *)
(* Numbers.  numpy floats are modelled by exact rationals <<n, d>> with    *)
(* d > 0 in lowest terms, so a mean, a difference and a comparison are     *)
(* computed, not assumed.  Rounding of binary floating point is not        *)
(* modelled.                                                               *)
(***************************************************************************)
EXTENDS Integers, Sequences, FiniteSets, TLC

(***************************************************************************)
(* Bounds of the model.                                                    *)
(***************************************************************************)
\* largest number of samples of a well-formed batch
MaxN == 3
\* largest length of an array of a malformed batch
MaxBad == 2
\* the largest number of calls of create_ml_expectation_suite on a validator
MaxCalls == 3

(***************************************************************************)
(* Exact rational arithmetic (the float arithmetic of numpy and Python).   *)
(***************************************************************************)
Abs(i) == IF i < 0 THEN -i ELSE i

RECURSIVE GCD(_, _)
GCD(a, b) == IF b = 0 THEN a ELSE GCD(b, a % b)

\* the rational n/d (d # 0) in lowest terms with a positive denominator
Q(n, d) ==
    LET s == IF d < 0 THEN -1 ELSE 1
        g == GCD(Abs(n), Abs(d))
    IN  <<(s * n) \div g, (s * d) \div g>>

Zero == <<0, 1>>
One == <<1, 1>>

QAdd(a, b) == Q(a[1] * b[2] + b[1] * a[2], a[2] * b[2])
QSub(a, b) == Q(a[1] * b[2] - b[1] * a[2], a[2] * b[2])
QLt(a, b) == a[1] * b[2] < b[1] * a[2]
QLe(a, b) == a[1] * b[2] <= b[1] * a[2]
QGt(a, b) == QLt(b, a)
QGe(a, b) == QLe(b, a)
QAbs(a) == <<Abs(a[1]), a[2]>>

\* Python's abs(x - y)
AbsDiff(a, b) == QAbs(QSub(a, b))

\* Python's two-argument max(a, b): b only when b > a
Max2(a, b) == IF QGt(b, a) THEN b ELSE a

\* Python's max(list) and min(list) of a non-empty list
ListMax(xs) ==
    LET F[i \in 1..Len(xs)] == IF i = 1 THEN xs[1] ELSE Max2(F[i - 1], xs[i])
    IN  F[Len(xs)]

ListMin(xs) ==
    LET F[i \in 1..Len(xs)] ==
            IF i = 1 THEN xs[1]
            ELSE IF QLt(xs[i], F[i - 1]) THEN xs[i] ELSE F[i - 1]
    IN  F[Len(xs)]

\* sum of a list of rationals
ListSum(xs) ==
    LET F[i \in 0..Len(xs)] == IF i = 0 THEN Zero ELSE QAdd(F[i - 1], xs[i])
    IN  F[Len(xs)]

\* np.mean of a non-empty list of rationals
Mean(xs) ==
    LET s == ListSum(xs)
    IN  Q(s[1], s[2] * Len(xs))

\* an integer array seen as a list of rationals
AsQ(arr) == [i \in 1..Len(arr) |-> <<arr[i], 1>>]

(***************************************************************************)
(* numpy / pandas helpers used by the detector.                            *)
(***************************************************************************)
\* Series.unique(): the distinct values in order of first appearance
Unique(col) ==
    LET F[i \in 0..Len(col)] ==
            IF i = 0 THEN <<>>
            ELSE LET seen == F[i - 1]
                 IN  IF \E j \in 1..Len(seen) : seen[j] = col[i]
                     THEN seen
                     ELSE Append(seen, col[i])
    IN  F[Len(col)]

\* column == group: the boolean mask
EqMask(col, group) == [i \in 1..Len(col) |-> col[i] = group]

\* arr == value, for an integer array
ValMask(arr, value) == [i \in 1..Len(arr) |-> arr[i] = value]

\* np.sum(mask)
MaskSum(mask) == Cardinality({i \in 1..Len(mask) : mask[i]})

\* arr[mask]: boolean-mask indexing
Masked(arr, mask) ==
    LET F[i \in 0..Len(arr)] ==
            IF i = 0 THEN <<>>
            ELSE IF mask[i] THEN Append(F[i - 1], arr[i]) ELSE F[i - 1]
    IN  F[Len(arr)]

\* np.all(np.isin(arr, [0, 1]))
AllBinary(arr) == \A i \in 1..Len(arr) : arr[i] \in {0, 1}

(***************************************************************************)
(* BiasMetric                                                              *)
(***************************************************************************)
DEMOGRAPHIC_PARITY == "demographic_parity"
EQUALIZED_ODDS == "equalized_odds"
EQUAL_OPPORTUNITY == "equal_opportunity"
CALIBRATION == "calibration"
COUNTERFACTUAL_FAIRNESS == "counterfactual_fairness"

\* list(BiasMetric): the members in definition order
BiasMetric ==
    <<DEMOGRAPHIC_PARITY, EQUALIZED_ODDS, EQUAL_OPPORTUNITY, CALIBRATION,
      COUNTERFACTUAL_FAIRNESS>>

(***************************************************************************)
(* Python dicts: a list of <<key, value>> pairs with distinct keys, in     *)
(* insertion order.                                                        *)
(***************************************************************************)
Keys(d) == [i \in 1..Len(d) |-> d[i][1]]
Values(d) == [i \in 1..Len(d) |-> d[i][2]]
HasKey(d, k) == \E i \in 1..Len(d) : d[i][1] = k
Get(d, k) == d[CHOOSE i \in 1..Len(d) : d[i][1] = k][2]

\* d[k] = v: an existing key keeps its position
DictSet(d, k, v) ==
    IF HasKey(d, k)
    THEN [i \in 1..Len(d) |-> IF d[i][1] = k THEN <<k, v>> ELSE d[i]]
    ELSE Append(d, <<k, v>>)

\* d.update(e)
DictUpdate(d, e) ==
    LET F[i \in 0..Len(e)] ==
            IF i = 0 THEN d ELSE DictSet(F[i - 1], e[i][1], e[i][2])
    IN  F[Len(e)]

(***************************************************************************)
(* MLModelBiasDetector.  self is the record of the instance attributes; a  *)
(* DataFrame is [len |-> number of rows, cols |-> [column name -> list]].  *)
(***************************************************************************)
\* configs[metric]
_get_detector_config(threshold, metric) ==
    CASE metric = DEMOGRAPHIC_PARITY ->
            [name |-> "Demographic Parity",
             description |-> "Ensures equal positive prediction rates across groups",
             formula |-> "P(Y_hat=1|A=0) = P(Y_hat=1|A=1)",
             threshold |-> threshold]
      [] metric = EQUALIZED_ODDS ->
            [name |-> "Equalized Odds",
             description |-> "Ensures equal TPR and FPR across groups",
             formula |-> "P(Y_hat=1|Y=y,A=0) = P(Y_hat=1|Y=y,A=1) for y in {0,1}",
             threshold |-> threshold]
      [] metric = EQUAL_OPPORTUNITY ->
            [name |-> "Equal Opportunity",
             description |-> "Ensures equal TPR across groups",
             formula |-> "P(Y_hat=1|Y=1,A=0) = P(Y_hat=1|Y=1,A=1)",
             threshold |-> threshold]
      [] metric = CALIBRATION ->
            [name |-> "Calibration",
             description |-> "Ensures equal calibration across groups",
             formula |-> "P(Y=1|Y_hat=v,A=0) = P(Y=1|Y_hat=v,A=1) for all v",
             threshold |-> threshold]
      [] metric = COUNTERFACTUAL_FAIRNESS ->
            [name |-> "Counterfactual Fairness",
             description |-> "Ensures predictions would be same in counterfactual world",
             formula |-> "P(Y_hat=1|A=0,U=u) = P(Y_hat=1|A=1,U=u) for all u",
             threshold |-> threshold]

\* _initialize_detectors: one entry per metric, keyed by metric.value
_initialize_detectors(threshold, metrics) ==
    LET F[i \in 0..Len(metrics)] ==
            IF i = 0 THEN <<>>
            ELSE DictSet(F[i - 1], metrics[i],
                         _get_detector_config(threshold, metrics[i]))
    IN  F[Len(metrics)]

\* __init__ with a default of four metrics: counterfactual fairness left out
InitWithFourMetrics(model_name, protected_attributes, threshold, metrics) ==
    LET ms == IF metrics = <<>> THEN SubSeq(BiasMetric, 1, 4) ELSE metrics
    IN  [model_name |-> model_name,
         protected_attributes |-> protected_attributes,
         threshold |-> threshold,
         metrics |-> ms,
         detectors |-> _initialize_detectors(threshold, ms)]

\* __init__; metrics is <<>> for None (and for an empty list, falsy as well)
__init__(model_name, protected_attributes, threshold, metrics) ==
    LET ms == IF metrics = <<>> THEN BiasMetric ELSE metrics
    IN  [model_name |-> model_name,
         protected_attributes |-> protected_attributes,
         threshold |-> threshold,
         metrics |-> ms,
         detectors |-> _initialize_detectors(threshold, ms)]

\* _validate_inputs without its last check: the labels are not looked at
ValidateWithoutLabels(self, predictions, true_labels, protected_attributes) ==
    LET attrs == self.protected_attributes
        missing == {i \in 1..Len(attrs) :
                        attrs[i] \notin DOMAIN protected_attributes.cols}
        first == CHOOSE i \in missing : \A j \in missing : i <= j
    IN  IF Len(predictions) # Len(true_labels)
        THEN "Predictions and true labels must have same length"
        ELSE IF Len(predictions) # protected_attributes.len
        THEN "Predictions and protected attributes must have same length"
        ELSE IF missing # {}
        THEN "Protected attribute '" \o attrs[first] \o "' not found in data"
        ELSE IF ~AllBinary(predictions)
        THEN "Predictions must be binary (0 or 1)"
        ELSE ""

\* the message of the ValueError raised, or "" when the inputs pass
_validate_inputs(self, predictions, true_labels, protected_attributes) ==
    LET attrs == self.protected_attributes
        missing == {i \in 1..Len(attrs) :
                        attrs[i] \notin DOMAIN protected_attributes.cols}
        first == CHOOSE i \in missing : \A j \in missing : i <= j
    IN  IF Len(predictions) # Len(true_labels)
        THEN "Predictions and true labels must have same length"
        ELSE IF Len(predictions) # protected_attributes.len
        THEN "Predictions and protected attributes must have same length"
        ELSE IF missing # {}
        THEN "Protected attribute '" \o attrs[first] \o "' not found in data"
        ELSE IF ~AllBinary(predictions)
        THEN "Predictions must be binary (0 or 1)"
        ELSE IF ~AllBinary(true_labels)
        THEN "True labels must be binary (0 or 1)"
        ELSE ""

(***************************************************************************)
(* The per-attribute part of each metric: the body of the loop             *)
(* `for attr in self.protected_attributes`, from the old max_bias to the   *)
(* new one.                                                                *)
(***************************************************************************)
\* the rates appended for the groups of one attribute: arrs[i] is the array
\* the rate of the i-th group is the mean of, and a group with an empty one
\* is left out
RatesOver(arrs) ==
    LET F[i \in 0..Len(arrs)] ==
            IF i = 0 THEN <<>>
            ELSE LET arr == arrs[i]
                 IN  IF Len(arr) > 0 THEN Append(F[i - 1], Mean(arr)) ELSE F[i - 1]
    IN  F[Len(arrs)]

\* max(rates) - min(rates)
Spread(rates) == QSub(ListMax(rates), ListMin(rates))

\* max_bias = max_bias + (max(rates) - min(rates)): the disparities added up
WidenBySum(max_bias, rates) ==
    IF Len(rates) >= 2 THEN QAdd(max_bias, Spread(rates)) ELSE max_bias

\* if len(rates) >= 2: max_bias = max(max_bias, max(rates) - min(rates))
Widen(max_bias, rates) ==
    IF Len(rates) >= 2 THEN Max2(max_bias, Spread(rates)) ELSE max_bias

\* the disparity taken between the first two groups only
DemographicParityFirstTwo(max_bias, attr, predictions, protected_attributes) ==
    LET col == protected_attributes.cols[attr]
        groups == Unique(col)
        preds(group) == AsQ(Masked(predictions, EqMask(col, group)))
        group_rates == RatesOver([i \in 1..Len(groups) |-> preds(groups[i])])
    IN  IF Len(groups) < 2 \/ Len(group_rates) < 2 THEN max_bias
        ELSE Max2(max_bias, AbsDiff(group_rates[1], group_rates[2]))

\* an attribute with one group is not skipped: the rate of its group is
\* taken as its disparity
DemographicParitySingleCounted(max_bias, attr, predictions, protected_attributes) ==
    LET col == protected_attributes.cols[attr]
        groups == Unique(col)
        preds(group) == AsQ(Masked(predictions, EqMask(col, group)))
        group_rates == RatesOver([i \in 1..Len(groups) |-> preds(groups[i])])
    IN  IF Len(groups) = 1 THEN Max2(max_bias, group_rates[1])
        ELSE IF Len(groups) < 2 THEN max_bias
        ELSE Widen(max_bias, group_rates)

DemographicParityAttr(max_bias, attr, predictions, protected_attributes) ==
    LET col == protected_attributes.cols[attr]
        groups == Unique(col)
        preds(group) == AsQ(Masked(predictions, EqMask(col, group)))
        group_rates == RatesOver([i \in 1..Len(groups) |-> preds(groups[i])])
    IN  IF Len(groups) < 2 THEN max_bias ELSE Widen(max_bias, group_rates)

\* predictions of the members of group whose true label is label
PredsOfLabel(col, group, label, predictions, true_labels) ==
    LET mask == EqMask(col, group)
        group_preds == Masked(predictions, mask)
        group_labels == Masked(true_labels, mask)
    IN  AsQ(Masked(group_preds, ValMask(group_labels, label)))

\* equalized odds with the rate of a group without positive (negative)
\* members counted as 0.0
EqualizedOddsZeroFilled(max_bias, attr, predictions, true_labels, protected_attributes) ==
    LET col == protected_attributes.cols[attr]
        groups == Unique(col)
        rate(arr) == IF Len(arr) > 0 THEN Mean(arr) ELSE Zero
        pos(group) == PredsOfLabel(col, group, 1, predictions, true_labels)
        neg(group) == PredsOfLabel(col, group, 0, predictions, true_labels)
        tpr_scores == [i \in 1..Len(groups) |-> rate(pos(groups[i]))]
        fpr_scores == [i \in 1..Len(groups) |-> rate(neg(groups[i]))]
    IN  IF Len(groups) < 2 THEN max_bias
        ELSE Widen(Widen(max_bias, tpr_scores), fpr_scores)

EqualizedOddsAttr(max_bias, attr, predictions, true_labels, protected_attributes) ==
    LET col == protected_attributes.cols[attr]
        groups == Unique(col)
        pos(group) == PredsOfLabel(col, group, 1, predictions, true_labels)
        neg(group) == PredsOfLabel(col, group, 0, predictions, true_labels)
        tpr_scores == RatesOver([i \in 1..Len(groups) |-> pos(groups[i])])
        fpr_scores == RatesOver([i \in 1..Len(groups) |-> neg(groups[i])])
    IN  IF Len(groups) < 2 THEN max_bias
        ELSE Widen(Widen(max_bias, tpr_scores), fpr_scores)

\* equal opportunity that also widens by the false-positive rates
EqualOpportunityWithFPR(max_bias, attr, predictions, true_labels, protected_attributes) ==
    LET col == protected_attributes.cols[attr]
        groups == Unique(col)
        pos(group) == PredsOfLabel(col, group, 1, predictions, true_labels)
        neg(group) == PredsOfLabel(col, group, 0, predictions, true_labels)
    IN  IF Len(groups) < 2 THEN max_bias
        ELSE Widen(Widen(max_bias, RatesOver([i \in 1..Len(groups) |-> pos(groups[i])])), RatesOver([i \in 1..Len(groups) |-> neg(groups[i])]))

EqualOpportunityAttr(max_bias, attr, predictions, true_labels, protected_attributes) ==
    LET col == protected_attributes.cols[attr]
        groups == Unique(col)
        pos(group) == PredsOfLabel(col, group, 1, predictions, true_labels)
        tpr_scores == RatesOver([i \in 1..Len(groups) |-> pos(groups[i])])
    IN  IF Len(groups) < 2 THEN max_bias ELSE Widen(max_bias, tpr_scores)

\* bins = np.linspace(0, 1, 11): the 11 edges 0, 0.1, ..., 1
bins ==
    <<(<<0, 1>>), (<<1, 10>>), (<<1, 5>>), (<<3, 10>>), (<<2, 5>>), (<<1, 2>>),
      (<<3, 5>>), (<<7, 10>>), (<<4, 5>>), (<<9, 10>>), (<<1, 1>>)>>

\* (group_probs >= bins[i]) & (group_probs <= bins[i + 1]): closed bins
BinMaskClosed(group_probs, i) ==
    LET F[k \in 0..Len(group_probs)] ==
            IF k = 0 THEN <<>>
            ELSE Append(F[k - 1], /\ QGe(group_probs[k], bins[i])
                                  /\ QLe(group_probs[k], bins[i + 1]))
    IN  F[Len(group_probs)]

\* (group_probs >= bins[i]) & (group_probs < bins[i + 1])
BinMask(group_probs, i) ==
    LET F[k \in 0..Len(group_probs)] ==
            IF k = 0 THEN <<>>
            ELSE Append(F[k - 1], /\ QGe(group_probs[k], bins[i])
                                  /\ QLt(group_probs[k], bins[i + 1]))
    IN  F[Len(group_probs)]

\* calibration_errors of one group: one |mean prob - mean label| per
\* non-empty bin, in bin order
CalibrationErrors(group_probs, group_labels) ==
    LET F[i \in 0..(Len(bins) - 1)] ==
            IF i = 0 THEN <<>>
            ELSE LET bin_mask == BinMask(group_probs, i)
                 IN  IF MaskSum(bin_mask) > 0
                     THEN Append(F[i - 1],
                                 AbsDiff(Mean(Masked(group_probs, bin_mask)),
                                         Mean(AsQ(Masked(group_labels, bin_mask)))))
                     ELSE F[i - 1]
    IN  F[Len(bins) - 1]

CalibrationAttr(max_bias, attr, prediction_probabilities, true_labels, protected_attributes) ==
    LET col == protected_attributes.cols[attr]
        groups == Unique(col)
        errs(group) ==
            LET mask == EqMask(col, group)
            IN  CalibrationErrors(Masked(prediction_probabilities, mask),
                                  Masked(true_labels, mask))
        group_calibrations == RatesOver([i \in 1..Len(groups) |-> errs(groups[i])])
    IN  IF Len(groups) < 2 THEN max_bias ELSE Widen(max_bias, group_calibrations)

(***************************************************************************)
(* The metrics: max_bias = 0.0, then the loop over                         *)
(* self.protected_attributes.                                              *)
(***************************************************************************)
_demographic_parity(self, predictions, protected_attributes) ==
    LET attrs == self.protected_attributes
        F[i \in 0..Len(attrs)] ==
            IF i = 0 THEN Zero
            ELSE DemographicParityAttr(F[i - 1], attrs[i], predictions,
                                       protected_attributes)
    IN  F[Len(attrs)]

_equalized_odds(self, predictions, true_labels, protected_attributes) ==
    LET attrs == self.protected_attributes
        F[i \in 0..Len(attrs)] ==
            IF i = 0 THEN Zero
            ELSE EqualizedOddsAttr(F[i - 1], attrs[i], predictions, true_labels,
                                   protected_attributes)
    IN  F[Len(attrs)]

_equal_opportunity(self, predictions, true_labels, protected_attributes) ==
    LET attrs == self.protected_attributes
        F[i \in 0..Len(attrs)] ==
            IF i = 0 THEN Zero
            ELSE EqualOpportunityAttr(F[i - 1], attrs[i], predictions, true_labels,
                                      protected_attributes)
    IN  F[Len(attrs)]

_calibration(self, prediction_probabilities, true_labels, protected_attributes) ==
    LET attrs == self.protected_attributes
        F[i \in 0..Len(attrs)] ==
            IF i = 0 THEN Zero
            ELSE CalibrationAttr(F[i - 1], attrs[i], prediction_probabilities,
                                 true_labels, protected_attributes)
    IN  F[Len(attrs)]

\* counterfactual fairness left uncomputed: 0.0
CounterfactualFairnessNone(self, predictions, protected_attributes) == Zero

_counterfactual_fairness(self, predictions, protected_attributes) ==
    _demographic_parity(self, predictions, protected_attributes)

\* prediction_probabilities is [given |-> FALSE] for None and
\* [given |-> TRUE, vals |-> array] otherwise
_compute_bias_metric(self, metric, predictions, true_labels, protected_attributes, prediction_probabilities) ==
    CASE metric = DEMOGRAPHIC_PARITY ->
            _demographic_parity(self, predictions, protected_attributes)
      [] metric = EQUALIZED_ODDS ->
            _equalized_odds(self, predictions, true_labels, protected_attributes)
      [] metric = EQUAL_OPPORTUNITY ->
            _equal_opportunity(self, predictions, true_labels, protected_attributes)
      [] metric = CALIBRATION ->
            IF ~prediction_probabilities.given
            THEN Zero
            ELSE _calibration(self, prediction_probabilities.vals, true_labels,
                              protected_attributes)
      [] metric = COUNTERFACTUAL_FAIRNESS ->
            _counterfactual_fairness(self, predictions, protected_attributes)

\* f"{attr}_{group}_{metric.value}"
GroupKey(attr, group, metric) == attr \o "_" \o group \o "_" \o metric

\* the group score as a count of predictions 1: np.sum for np.mean
GroupScoreBySum(metric, col, group, predictions, true_labels) ==
    LET mask == EqMask(col, group)
        pos == PredsOfLabel(col, group, 1, predictions, true_labels)
    IN  IF metric = DEMOGRAPHIC_PARITY
        THEN ListSum(AsQ(Masked(predictions, mask)))
        ELSE IF metric \in {EQUALIZED_ODDS, EQUAL_OPPORTUNITY}
        THEN IF Len(pos) > 0 THEN ListSum(pos) ELSE Zero
        ELSE Zero

\* the group score as the positive-prediction rate for every metric based
\* on rates
GroupScoreOfPredictions(metric, col, group, predictions, true_labels) ==
    LET mask == EqMask(col, group)
    IN  IF metric \in {DEMOGRAPHIC_PARITY, EQUALIZED_ODDS, EQUAL_OPPORTUNITY}
        THEN Mean(AsQ(Masked(predictions, mask)))
        ELSE Zero

\* the score _compute_group_bias stores for one group of one attribute
GroupScore(metric, col, group, predictions, true_labels) ==
    LET mask == EqMask(col, group)
        pos == PredsOfLabel(col, group, 1, predictions, true_labels)
    IN  IF metric = DEMOGRAPHIC_PARITY
        THEN Mean(AsQ(Masked(predictions, mask)))
        ELSE IF metric \in {EQUALIZED_ODDS, EQUAL_OPPORTUNITY}
        THEN IF Len(pos) > 0 THEN Mean(pos) ELSE Zero
        ELSE Zero

_compute_group_bias(self, metric, predictions, true_labels, protected_attributes) ==
    LET attrs == self.protected_attributes
        \* the inner loop over the groups of attrs[a], from the dict d
        Inner(d, a) ==
            LET col == protected_attributes.cols[attrs[a]]
                groups == Unique(col)
                G[j \in 0..Len(groups)] ==
                    IF j = 0 THEN d
                    ELSE IF MaskSum(EqMask(col, groups[j])) > 0
                         THEN DictSet(G[j - 1],
                                      GroupKey(attrs[a], groups[j], metric),
                                      GroupScore(metric, col, groups[j],
                                                 predictions, true_labels))
                         ELSE G[j - 1]
            IN  G[Len(groups)]
        F[a \in 0..Len(attrs)] == IF a = 0 THEN <<>> ELSE Inner(F[a - 1], a)
    IN  F[Len(attrs)]

\* the texts of the recommendations, without the emoji each one begins with
NoBiasNotice == "No significant bias detected. Continue monitoring."

\* the recommendation of one problematic metric (none for a metric without
\* a branch)
MetricRecommendation(metric) ==
    CASE metric = "demographic_parity" ->
            <<"Demographic parity violation detected. Consider rebalancing training data "
              \o "or applying fairness constraints during training.">>
      [] metric = "equalized_odds" ->
            <<"Equalized odds violation detected. Consider post-processing techniques "
              \o "to equalize true positive and false positive rates across groups.">>
      [] metric = "equal_opportunity" ->
            <<"Equal opportunity violation detected. Focus on equalizing true positive "
              \o "rates across protected groups.">>
      [] metric = "calibration" ->
            <<"Calibration bias detected. Consider recalibrating model predictions "
              \o "separately for each protected group.">>
      [] OTHER -> <<>>

GeneralRecommendations ==
    <<"Retrain model with fairness-aware algorithms",
      "Collect more representative training data",
      "Apply bias mitigation techniques (preprocessing, in-processing, or post-processing)",
      "Conduct regular bias audits with domain experts",
      "Review model decisions with affected stakeholders">>

\* the notice appended without the early return: the general
\* recommendations follow it
RecommendationsWithoutReturn(self, metric_scores, group_scores, bias_detected) ==
    LET P[i \in 0..Len(metric_scores)] ==
            IF i = 0 THEN <<>>
            ELSE IF QGt(metric_scores[i][2], self.threshold)
                 THEN Append(P[i - 1], metric_scores[i][1])
                 ELSE P[i - 1]
        problematic_metrics == P[Len(metric_scores)]
        R[i \in 0..Len(problematic_metrics)] ==
            IF i = 0 THEN <<>>
            ELSE R[i - 1] \o MetricRecommendation(problematic_metrics[i])
    IN  IF ~bias_detected
        THEN <<NoBiasNotice>> \o GeneralRecommendations
        ELSE R[Len(problematic_metrics)] \o GeneralRecommendations

\* recommendations that leave out the loop over the problematic metrics
RecommendationsGeneralOnly(self, metric_scores, group_scores, bias_detected) ==
    IF ~bias_detected THEN <<NoBiasNotice>> ELSE GeneralRecommendations

\* the notice given only when no metric is problematic, whatever
\* bias_detected
RecommendationsByMetric(self, metric_scores, group_scores, bias_detected) ==
    LET P[i \in 0..Len(metric_scores)] ==
            IF i = 0 THEN <<>>
            ELSE IF QGt(metric_scores[i][2], self.threshold)
                 THEN Append(P[i - 1], metric_scores[i][1])
                 ELSE P[i - 1]
        problematic_metrics == P[Len(metric_scores)]
        R[i \in 0..Len(problematic_metrics)] ==
            IF i = 0 THEN <<>>
            ELSE R[i - 1] \o MetricRecommendation(problematic_metrics[i])
    IN  IF problematic_metrics = <<>>
        THEN <<NoBiasNotice>>
        ELSE R[Len(problematic_metrics)] \o GeneralRecommendations

_generate_recommendations(self, metric_scores, group_scores, bias_detected) ==
    LET \* the keys whose score > self.threshold, in dict order
        P[i \in 0..Len(metric_scores)] ==
            IF i = 0 THEN <<>>
            ELSE IF QGt(metric_scores[i][2], self.threshold)
                 THEN Append(P[i - 1], metric_scores[i][1])
                 ELSE P[i - 1]
        problematic_metrics == P[Len(metric_scores)]
        R[i \in 0..Len(problematic_metrics)] ==
            IF i = 0 THEN <<>>
            ELSE R[i - 1] \o MetricRecommendation(problematic_metrics[i])
    IN  IF ~bias_detected
        THEN <<NoBiasNotice>>
        ELSE R[Len(problematic_metrics)] \o GeneralRecommendations

\* the loop with no score stored for calibration without probabilities
MetricLoopSkipping(self, predictions, true_labels, protected_attributes, prediction_probabilities) ==
    LET ms == self.metrics
        F[i \in 0..Len(ms)] ==
            IF i = 0 THEN <<(<<>>), (<<>>)>>
            ELSE LET prev == F[i - 1]
                 IN  <<IF ms[i] = CALIBRATION /\ ~prediction_probabilities.given
                       THEN prev[1]
                       ELSE DictSet(prev[1], ms[i],
                                    _compute_bias_metric(self, ms[i], predictions,
                                                         true_labels,
                                                         protected_attributes,
                                                         prediction_probabilities)),
                       DictUpdate(prev[2],
                                  _compute_group_bias(self, ms[i], predictions,
                                                      true_labels,
                                                      protected_attributes))>>
    IN  F[Len(ms)]

\* the loop of detect_bias over self.metrics: <<metric_scores, group_scores>>
MetricLoop(self, predictions, true_labels, protected_attributes, prediction_probabilities) ==
    LET ms == self.metrics
        F[i \in 0..Len(ms)] ==
            IF i = 0 THEN <<(<<>>), (<<>>)>>
            ELSE LET prev == F[i - 1]
                 IN  <<DictSet(prev[1], ms[i],
                               _compute_bias_metric(self, ms[i], predictions,
                                                    true_labels, protected_attributes,
                                                    prediction_probabilities)),
                       DictUpdate(prev[2],
                                  _compute_group_bias(self, ms[i], predictions,
                                                      true_labels,
                                                      protected_attributes))>>
    IN  F[Len(ms)]

\* the mean of the scores that are not 0: a skipped metric left out
MeanOfNonZero(metric_scores) ==
    LET nz == SelectSeq(Values(metric_scores), LAMBDA v : v # Zero)
    IN  IF nz = <<>> THEN Zero ELSE Mean(nz)

\* overall_bias_score = np.mean(list(metric_scores.values()))
OverallBiasScore(metric_scores) == Mean(Values(metric_scores))

\* overall_bias_score >= self.threshold
AtLeastThreshold(self, overall_bias_score) == QGe(overall_bias_score, self.threshold)

\* bias_detected = overall_bias_score > self.threshold
BiasDetected(self, overall_bias_score) == QGt(overall_bias_score, self.threshold)

\* metadata whose metrics_computed leaves out calibration when it was
\* skipped for want of probabilities
MetadataOfComputed(self, predictions, prediction_probabilities, timestamp) ==
    [model_name |-> self.model_name,
     sample_size |-> Len(predictions),
     protected_attributes |-> self.protected_attributes,
     metrics_computed |->
         SelectSeq(self.metrics,
                   LAMBDA m : m # CALIBRATION \/ prediction_probabilities.given),
     threshold |-> self.threshold,
     timestamp |-> timestamp]

\* the metadata of the report; prediction_probabilities is not read
Metadata(self, predictions, prediction_probabilities, timestamp) ==
    [model_name |-> self.model_name,
     sample_size |-> Len(predictions),
     protected_attributes |-> self.protected_attributes,
     metrics_computed |-> self.metrics,
     threshold |-> self.threshold,
     timestamp |-> timestamp]

\* detect_bias: the BiasDetectionResult returned, or the exception raised
\* (logged and re-raised by the except clause).  timestamp is the clock read
\* by pd.Timestamp.now().
detect_bias(self, predictions, true_labels, protected_attributes, prediction_probabilities, timestamp) ==
    LET error == _validate_inputs(self, predictions, true_labels,
                                  protected_attributes)
        scores == MetricLoop(self, predictions, true_labels, protected_attributes,
                             prediction_probabilities)
        metric_scores == scores[1]
        group_scores == scores[2]
        overall_bias_score == OverallBiasScore(metric_scores)
        bias_detected == BiasDetected(self, overall_bias_score)
    IN  IF error # ""
        THEN [kind |-> "raise", exc |-> "ValueError", msg |-> error]
        ELSE [kind |-> "return",
              overall_bias_score |-> overall_bias_score,
              bias_detected |-> bias_detected,
              threshold_exceeded |-> bias_detected,
              metric_scores |-> metric_scores,
              group_scores |-> group_scores,
              recommendations |->
                  _generate_recommendations(self, metric_scores, group_scores,
                                            bias_detected),
              metadata |-> Metadata(self, predictions, prediction_probabilities,
                                    timestamp)]

(***************************************************************************)
(* Persistence.  A member of BiasMetric is represented by its value, so     *)
(* m.value is m and BiasMetric(v) is the member whose value is v.  The file *)
(* holds the pickled config dict; pickle gives back the str, list, float   *)
(* and dict values it was given.                                           *)
(***************************************************************************)
\* [m.value for m in self.metrics]
MetricValues(metrics) == [i \in 1..Len(metrics) |-> metrics[i]]

\* BiasMetric(v): the member with value v
BiasMetricOf(v) == BiasMetric[CHOOSE i \in 1..Len(BiasMetric) : BiasMetric[i] = v]

\* save_detector: the config dict pickled to the file
save_detector(self) ==
    [model_name |-> self.model_name,
     protected_attributes |-> self.protected_attributes,
     threshold |-> self.threshold,
     metrics |-> MetricValues(self.metrics),
     detectors |-> self.detectors]

\* load_detector that leaves the metrics to the default of the constructor
LoadWithDefaultMetrics(config) ==
    LET detector == __init__(config.model_name, config.protected_attributes,
                             config.threshold, <<>>)
    IN  [detector EXCEPT !.detectors = config.detectors]

\* load_detector, from the config dict unpickled from the file
load_detector(config) ==
    LET metrics == [i \in 1..Len(config.metrics) |-> BiasMetricOf(config.metrics[i])]
        detector == __init__(config.model_name, config.protected_attributes,
                             config.threshold, metrics)
    IN  [detector EXCEPT !.detectors = config.detectors]

(***************************************************************************)
(* The detectors constructed and the batches detect_bias is called on.     *)
(***************************************************************************)
\* 0.05, the default threshold
DefaultThreshold == Q(1, 20)

\* the detectors constructed: one or two protected attributes with the
\* defaults (threshold 0.05, metrics=None); threshold 0.5 and an explicit
\* list of metrics; no protected attribute; a negative threshold
Detectors ==
    {__init__("model", attrs, DefaultThreshold, <<>>) :
        attrs \in {<<"a">>, <<"a", "b">>}}
    \cup
    {__init__("model", <<"a">>, Q(1, 2), <<CALIBRATION, DEMOGRAPHIC_PARITY>>),
     __init__("model", <<>>, DefaultThreshold, <<>>),
     __init__("model", <<"a">>, Q(-1, 20), <<DEMOGRAPHIC_PARITY>>)}

\* the values of column a, in the order that sorts the rows of a batch
GroupsA == <<"x", "y", "z">>

\* column b of a table of n rows
ColumnB(n) == [i \in 1..n |-> IF i % 2 = 1 THEN "u" ELSE "v"]

\* the table of columns a and b
Table(colA) ==
    [len |-> Len(colA),
     cols |-> [c \in {"a", "b"} |-> IF c = "a" THEN colA ELSE ColumnB(Len(colA))]]

\* the table of column a alone
TableA(colA) == [len |-> Len(colA), cols |-> [c \in {"a"} |-> colA]]

None == [given |-> FALSE]
Some(vals) == [given |-> TRUE, vals |-> vals]

\* the <<probability, label>> rows of a batch with probabilities: 0.2 and
\* 0.25 (one bin, 0.2 its lower edge), 0.8, and 1.0 (the upper edge of the
\* last bin)
ScoredRows ==
    <<<<Q(1, 5), 0>>, <<Q(1, 5), 1>>, <<Q(1, 4), 1>>,
      <<Q(4, 5), 0>>, <<Q(4, 5), 1>>, <<Q(1, 1), 1>>>>

\* the class predicted from a probability: 1 from 0.5 on
Classify(probs) == [i \in 1..Len(probs) |-> IF QGe(probs[i], Q(1, 2)) THEN 1 ELSE 0]

\* the lists of n row codes below t in non-decreasing order: the rows of a
\* batch are enumerated up to their order
SortedRows(n, t) ==
    {s \in [1..n -> 0..(t - 1)] : \A i \in 1..(n - 1) : s[i] <= s[i + 1]}

\* well-formed batches without probabilities; a row code is
\* prediction + 2 * label + 4 * (index of the group of a)
PlainBatch(s) ==
    [predictions |-> [i \in 1..Len(s) |-> s[i] % 2],
     true_labels |-> [i \in 1..Len(s) |-> (s[i] \div 2) % 2],
     protected_attributes |-> Table([i \in 1..Len(s) |-> GroupsA[(s[i] \div 4) + 1]]),
     prediction_probabilities |-> None]

PlainBatches ==
    UNION {{PlainBatch(s) : s \in SortedRows(n, 4 * Len(GroupsA))} : n \in 0..MaxN}

\* well-formed batches with probabilities, the predictions being their
\* classes; a row code is (index of the group of a, of 2)
\* + 2 * (index of the row of ScoredRows)
ScoredBatch(s) ==
    LET probs == [i \in 1..Len(s) |-> ScoredRows[(s[i] \div 2) + 1][1]]
    IN  [predictions |-> Classify(probs),
         true_labels |-> [i \in 1..Len(s) |-> ScoredRows[(s[i] \div 2) + 1][2]],
         protected_attributes |->
             Table([i \in 1..Len(s) |-> GroupsA[(s[i] % 2) + 1]]),
         prediction_probabilities |-> Some(probs)]

ScoredBatches ==
    UNION {{ScoredBatch(s) : s \in SortedRows(n, 2 * Len(ScoredRows))} :
           n \in 0..MaxN}

\* batches of n predictions with values 0, 1 and 2, n or n - 1 labels, and a
\* table of n or n + 1 rows with column a alone; the rules of
\* _validate_inputs look at lengths and at the values present, so the
\* values of each array are enumerated in non-decreasing order
RaggedBatches ==
    UNION {{[predictions |-> p, true_labels |-> t,
             protected_attributes |-> TableA([i \in 1..r |-> "x"]),
             prediction_probabilities |-> None] :
            p \in SortedRows(nmr[1], 3), t \in SortedRows(nmr[2], 3),
            r \in {nmr[3]}} :
           nmr \in {x \in (0..MaxBad) \X (0..MaxBad) \X (0..(MaxBad + 1)) :
                       /\ x[2] \in {x[1], x[1] - 1}
                       /\ x[3] \in {x[1], x[1] + 1}}}

Batches == PlainBatches \cup ScoredBatches \cup RaggedBatches

\* detectors whose attribute names and whose only metric matter: an
\* attribute name with an underscore beside a prefix of it, and
\* counterfactual fairness alone
NameDetectors ==
    {__init__("model", <<"a", "a_b">>, DefaultThreshold, <<DEMOGRAPHIC_PARITY>>),
     __init__("model", <<"a">>, DefaultThreshold, <<COUNTERFACTUAL_FAIRNESS>>)}

\* the values of the columns a and a_b
NameGroupsA == <<"b", "b_x">>
NameGroupsAB == <<"x", "y">>

\* batches with the columns a and a_b, every label equal to its prediction;
\* a row code is prediction + 2 * (index of the group of a)
\* + 4 * (index of the group of a_b)
NameBatch(s) ==
    [predictions |-> [i \in 1..Len(s) |-> s[i] % 2],
     true_labels |-> [i \in 1..Len(s) |-> s[i] % 2],
     protected_attributes |->
         [len |-> Len(s),
          cols |-> [c \in {"a", "a_b"} |->
                      IF c = "a"
                      THEN [i \in 1..Len(s) |-> NameGroupsA[((s[i] \div 2) % 2) + 1]]
                      ELSE [i \in 1..Len(s) |-> NameGroupsAB[(s[i] \div 4) + 1]]]],
     prediction_probabilities |-> None]

NameBatches ==
    UNION {{NameBatch(s) : s \in SortedRows(n, 2 * Len(NameGroupsA) * Len(NameGroupsAB))} :
           n \in 0..MaxN}

(***************************************************************************)
(* State.  A caller constructs one detector and then either calls          *)
(* detect_bias on it, once or twice, or saves it to a file and loads the   *)
(* file, or loads a file that does not exist.                              *)
(*   self, args, result: the detector, and the arguments and the outcome   *)
(*     of its latest call of detect_bias;                                  *)
(*   earlier: the arguments and the outcome of the call before it;         *)
(*   clock: the clock pd.Timestamp.now() reads;                            *)
(*   file: the file at the path given to save_detector and load_detector;  *)
(*   loaded: the outcome of load_detector;                                 *)
(*   pc: the position of the caller;                                       *)
(*   pipeline: the run of main of the computer-vision example;             *)
(*   validator: the MLDataValidator, its context and its latest call.      *)
(***************************************************************************)
VARIABLES self, args, result, clock, earlier, file, loaded, pc, pipeline, validator

vars == <<self, args, result, clock, earlier, file, loaded, pc, pipeline, validator>>

\* the variables of the other two modules
others == <<pipeline, validator>>

\* main was not started, no validator was constructed
NoPipeline == [pc |-> "none"]
NoValidator == [pc |-> "none"]

NoArgs == [predictions |-> <<>>, true_labels |-> <<>>,
           protected_attributes |-> [len |-> 0, cols |-> [c \in {} |-> <<>>]],
           prediction_probabilities |-> None]

Pending == [kind |-> "pending"]

\* no call before the latest one
NoCall == [args |-> NoArgs, result |-> Pending]

NoFile == [exists |-> FALSE]

Init ==
    /\ self \in Detectors
    /\ args = NoArgs
    /\ result = Pending
    /\ clock = 0
    /\ earlier = NoCall
    /\ file = NoFile
    /\ loaded = Pending
    /\ pc = "constructed"
    /\ pipeline = NoPipeline
    /\ validator = NoValidator

\* the batch of a second call beside the batch of the first one: two
\* groups with positive rates 1 and 0
OtherBatch ==
    [predictions |-> <<1, 0>>, true_labels |-> <<1, 0>>,
     protected_attributes |-> Table(<<"x", "y">>),
     prediction_probabilities |-> None]

\* the batches of a call: any batch for the first call; for the second
\* call the batch of the first call again, or another batch
BatchesOfCall ==
    IF pc = "constructed"
    THEN IF self \in NameDetectors THEN NameBatches ELSE Batches
    ELSE {args, OtherBatch}

\* a call whose report keeps the recommendations of the report before it
DetectBiasKeeping ==
    /\ pc \in {"constructed", "called"}
    /\ \E batch \in BatchesOfCall :
        /\ args' = batch
        /\ result' =
              LET r == detect_bias(self, batch.predictions, batch.true_labels,
                                   batch.protected_attributes,
                                   batch.prediction_probabilities, clock)
              IN  IF r.kind = "return" /\ result.kind = "return"
                  THEN [r EXCEPT !.recommendations = result.recommendations \o @]
                  ELSE r
    /\ earlier' = [args |-> args, result |-> result]
    /\ clock' = clock + 1
    /\ pc' = IF pc = "constructed" THEN "called" ELSE "called_twice"
    /\ UNCHANGED <<self, file, loaded>>
    /\ UNCHANGED others

\* a call that also sets the threshold of the detector to the overall score
\* of its report
DetectBiasAdapting ==
    /\ pc \in {"constructed", "called"}
    /\ \E batch \in BatchesOfCall :
        LET r == detect_bias(self, batch.predictions, batch.true_labels,
                             batch.protected_attributes,
                             batch.prediction_probabilities, clock)
        IN  /\ args' = batch
            /\ result' = r
            /\ self' = IF r.kind = "return"
                       THEN [self EXCEPT !.threshold = r.overall_bias_score]
                       ELSE self
    /\ earlier' = [args |-> args, result |-> result]
    /\ clock' = clock + 1
    /\ pc' = IF pc = "constructed" THEN "called" ELSE "called_twice"
    /\ UNCHANGED <<file, loaded>>
    /\ UNCHANGED others

\* detector.detect_bias(predictions, true_labels, protected_attributes,
\* prediction_probabilities) on a batch: the first or the second call
DetectBias ==
    /\ pc \in {"constructed", "called"}
    /\ \E batch \in BatchesOfCall :
        /\ args' = batch
        /\ result' = detect_bias(self, batch.predictions, batch.true_labels,
                                 batch.protected_attributes,
                                 batch.prediction_probabilities, clock)
    /\ earlier' = [args |-> args, result |-> result]
    /\ clock' = clock + 1
    /\ pc' = IF pc = "constructed" THEN "called" ELSE "called_twice"
    /\ UNCHANGED <<self, file, loaded>>
    /\ UNCHANGED others

\* detector.save_detector(filepath)
SaveDetector ==
    /\ pc = "constructed"
    /\ file' = [exists |-> TRUE, config |-> save_detector(self)]
    /\ pc' = "saved"
    /\ UNCHANGED <<self, args, result, clock, earlier, loaded>>
    /\ UNCHANGED others

\* MLModelBiasDetector.load_detector(filepath): open() raises when the
\* file does not exist
LoadDetector ==
    /\ pc \in {"constructed", "saved"}
    /\ loaded' = IF file.exists
                 THEN [kind |-> "return", detector |-> load_detector(file.config)]
                 ELSE [kind |-> "raise", exc |-> "FileNotFoundError"]
    /\ pc' = "loaded"
    /\ UNCHANGED <<self, args, result, clock, earlier, file>>
    /\ UNCHANGED others

Next ==
    \/ DetectBias
    \/ SaveDetector
    \/ LoadDetector

Spec == Init /\ [][Next]_vars

\* the same caller with a detector of NameDetectors
InitNames ==
    /\ self \in NameDetectors
    /\ args = NoArgs
    /\ result = Pending
    /\ clock = 0
    /\ earlier = NoCall
    /\ file = NoFile
    /\ loaded = Pending
    /\ pc = "constructed"
    /\ pipeline = NoPipeline
    /\ validator = NoValidator

SpecNames == InitNames /\ [][Next]_vars

(***************************************************************************)
(* Properties.  The definitions below restate what the call must give from *)
(* the arguments of the call alone, by sets and counting, without the      *)
(* loops of the detector.                                                  *)
(***************************************************************************)
Returned == result.kind = "return"
Raised == result.kind = "raise"

\* the number of samples of the batch
N == Len(args.predictions)

Configured(metric) == \E i \in 1..Len(self.metrics) : self.metrics[i] = metric
ConfiguredAttrs == {self.protected_attributes[i] : i \in 1..Len(self.protected_attributes)}

\* the four rules of the precondition, each by its violation
LengthsDiffer == Len(args.predictions) # Len(args.true_labels)
RowsDiffer == args.protected_attributes.len # Len(args.predictions)
MissingAttrs == {a \in ConfiguredAttrs : a \notin DOMAIN args.protected_attributes.cols}
NotBinary(arr) == \E i \in 1..Len(arr) : arr[i] # 0 /\ arr[i] # 1
Malformed ==
    \/ LengthsDiffer
    \/ RowsDiffer
    \/ MissingAttrs # {}
    \/ NotBinary(args.predictions)
    \/ NotBinary(args.true_labels)

\* the message names a rule the batch violates
NamesViolatedRule(msg) ==
    \/ msg = "Predictions and true labels must have same length" /\ LengthsDiffer
    \/ msg = "Predictions and protected attributes must have same length" /\ RowsDiffer
    \/ \E a \in MissingAttrs : msg = "Protected attribute '" \o a \o "' not found in data"
    \/ msg = "Predictions must be binary (0 or 1)" /\ NotBinary(args.predictions)
    \/ msg = "True labels must be binary (0 or 1)" /\ NotBinary(args.true_labels)

\* C1: a call on a batch that violates one of the four rules (lengths of
\* predictions and labels, rows of the table, a configured attribute missing
\* from the table, a value other than 0 and 1) raises the validation error
\* (Python's ValueError) whose message names a rule the batch violates, and
\* gives no report; nothing else makes the call raise.
C1_ValidationRejects ==
    result # Pending =>
        /\ Malformed =>
              /\ Raised
              /\ result.exc = "ValueError"
              /\ NamesViolatedRule(result.msg)
              /\ DOMAIN result = {"kind", "exc", "msg"}
        /\ Raised => Malformed

\* a batch whose only violation is a label that is neither 0 nor 1 was
\* rejected with the message of that rule
C1_Witness ==
    /\ Raised
    /\ NotBinary(args.true_labels)
    /\ ~NotBinary(args.predictions)
    /\ ~LengthsDiffer /\ ~RowsDiffer /\ MissingAttrs = {}
    /\ N = MaxBad
    /\ result.msg = "True labels must be binary (0 or 1)"

\* the sum of the scores of a set of keys of a dict
RECURSIVE ScoreSum(_, _)
ScoreSum(d, keys) ==
    IF keys = {} THEN Zero
    ELSE LET k == CHOOSE x \in keys : TRUE
         IN  QAdd(Get(d, k), ScoreSum(d, keys \ {k}))

MetricSet == {self.metrics[i] : i \in 1..Len(self.metrics)}

\* a = b * n for rationals a, b and a natural n
IsTimes(a, b, n) == a[1] * b[2] = b[1] * n * a[2]

\* C2: the overall score of a report is the sum of the scores of all the
\* configured metrics divided by their number; every configured metric has
\* a score, calibration without probabilities included, with score 0.
C2_OverallIsMean ==
    Returned =>
        /\ {result.metric_scores[i][1] : i \in 1..Len(result.metric_scores)} = MetricSet
        /\ Len(result.metric_scores) = Cardinality(MetricSet)
        /\ IsTimes(ScoreSum(result.metric_scores, MetricSet),
                   result.overall_bias_score, Cardinality(MetricSet))
        /\ (Configured(CALIBRATION) /\ ~args.prediction_probabilities.given)
              => Get(result.metric_scores, CALIBRATION) = Zero

\* calibration was skipped and its 0 halves the mean of the two scores
C2_Witness ==
    /\ Returned
    /\ self.metrics = <<CALIBRATION, DEMOGRAPHIC_PARITY>>
    /\ ~args.prediction_probabilities.given
    /\ Get(result.metric_scores, DEMOGRAPHIC_PARITY) = One
    /\ result.overall_bias_score = Q(1, 2)

\* C3: bias_detected is true exactly when the overall score is strictly
\* greater than the threshold, and threshold_exceeded equals bias_detected.
C3_DetectedIffAboveThreshold ==
    Returned =>
        /\ result.bias_detected =
              (result.overall_bias_score[1] * self.threshold[2]
                  > self.threshold[1] * result.overall_bias_score[2])
        /\ result.threshold_exceeded = result.bias_detected

\* an overall score equal to the threshold: no bias detected
C3_Witness ==
    /\ Returned
    /\ result.overall_bias_score = self.threshold
    /\ result.overall_bias_score # Zero
    /\ ~result.bias_detected
    /\ ~result.threshold_exceeded

(***************************************************************************)
(* The disparities of one attribute, stated over the rows of the batch.    *)
(***************************************************************************)
Column(attr) == args.protected_attributes.cols[attr]
GroupsOf(attr) == {Column(attr)[i] : i \in 1..N}
Members(attr, g) == {i \in 1..N : Column(attr)[i] = g}
Positives(attr, g) == {i \in Members(attr, g) : args.true_labels[i] = 1}
Negatives(attr, g) == {i \in Members(attr, g) : args.true_labels[i] = 0}

\* the share of predictions 1 among the rows S (S not empty), as a fraction
PredictedShare(S) == <<Cardinality({i \in S : args.predictions[i] = 1}), Cardinality(S)>>

Highest(R) == CHOOSE r \in R : \A q \in R : q[1] * r[2] <= r[1] * q[2]
Lowest(R) == CHOOSE r \in R : \A q \in R : r[1] * q[2] <= q[1] * r[2]

\* max minus min of a set of fractions, 0 for the empty set
SpreadOf(R) == IF R = {} THEN Zero ELSE QSub(Highest(R), Lowest(R))

PositiveRates(attr) == {PredictedShare(Members(attr, g)) : g \in GroupsOf(attr)}
TPRs(attr) ==
    {PredictedShare(Positives(attr, g)) :
        g \in {h \in GroupsOf(attr) : Positives(attr, h) # {}}}
FPRs(attr) ==
    {PredictedShare(Negatives(attr, g)) :
        g \in {h \in GroupsOf(attr) : Negatives(attr, h) # {}}}

DemographicParityOf(attr) == SpreadOf(PositiveRates(attr))
EqualOpportunityOf(attr) == SpreadOf(TPRs(attr))
EqualizedOddsOf(attr) ==
    LET t == SpreadOf(TPRs(attr))
        f == SpreadOf(FPRs(attr))
    IN  IF f[1] * t[2] > t[1] * f[2] THEN f ELSE t

\* the sum of the values of the function f over the set S
RECURSIVE SumOver(_, _)
SumOver(f, S) ==
    IF S = {} THEN Zero
    ELSE LET x == CHOOSE y \in S : TRUE
         IN  QAdd(f[x], SumOver(f, S \ {x}))

Probability(i) == args.prediction_probabilities.vals[i]

\* the probability of row i lies in [0, 1), and then in the bin
\* [b/10, (b+1)/10) for b = BinOf(i)
Binned(i) == 0 <= Probability(i)[1] /\ Probability(i)[1] < Probability(i)[2]
BinOf(i) == (10 * Probability(i)[1]) \div Probability(i)[2]

\* the rows of group g in bin b
Cell(attr, g, b) == {i \in Members(attr, g) : Binned(i) /\ BinOf(i) = b}

\* |mean probability - mean label| of a non-empty set of rows
CellError(S) ==
    LET p == SumOver([i \in S |-> Probability(i)], S)
        meanP == Q(p[1], p[2] * Cardinality(S))
        meanY == Q(Cardinality({i \in S : args.true_labels[i] = 1}), Cardinality(S))
    IN  IF QLt(meanP, meanY) THEN QSub(meanY, meanP) ELSE QSub(meanP, meanY)

FilledBins(attr, g) == {BinOf(i) : i \in {j \in Members(attr, g) : Binned(j)}}

\* the mean cell error of a group with a filled bin
GroupError(attr, g) ==
    LET B == FilledBins(attr, g)
        e == SumOver([b \in B |-> CellError(Cell(attr, g, b))], B)
    IN  Q(e[1], e[2] * Cardinality(B))

CalibrationOf(attr) ==
    SpreadOf({GroupError(attr, g) :
                 g \in {h \in GroupsOf(attr) : FilledBins(attr, h) # {}}})

\* the disparity of one attribute under a metric, as the report must show it
DisparityOf(metric, attr) ==
    CASE metric = DEMOGRAPHIC_PARITY -> DemographicParityOf(attr)
      [] metric = EQUALIZED_ODDS -> EqualizedOddsOf(attr)
      [] metric = EQUAL_OPPORTUNITY -> EqualOpportunityOf(attr)
      [] metric = CALIBRATION ->
            IF args.prediction_probabilities.given THEN CalibrationOf(attr) ELSE Zero
      [] metric = COUNTERFACTUAL_FAIRNESS -> DemographicParityOf(attr)

\* the detector has exactly one protected attribute
OneAttr == Len(self.protected_attributes) = 1
TheAttr == self.protected_attributes[1]
Score(metric) == Get(result.metric_scores, metric)

\* C4: the demographic-parity disparity of an attribute is max minus min of
\* the positive-prediction rates of its groups; with one protected attribute
\* it is the reported score, which is 0 when all groups have the same rate
\* and |rate_a - rate_b| for two groups; two groups with rates 1 and 0 at
\* threshold 0.05 give score 1 and bias_detected.
C4_DemographicParity ==
    (Returned /\ Configured(DEMOGRAPHIC_PARITY)) =>
        /\ \A attr \in ConfiguredAttrs :
              DemographicParityAttr(Zero, attr, args.predictions,
                                    args.protected_attributes)
                  = DemographicParityOf(attr)
        /\ OneAttr =>
              LET R == PositiveRates(TheAttr)
                  G == GroupsOf(TheAttr)
                  rate(g) == PredictedShare(Members(TheAttr, g))
              IN  /\ Score(DEMOGRAPHIC_PARITY) = DemographicParityOf(TheAttr)
                  /\ (\A q, r \in R : q[1] * r[2] = r[1] * q[2])
                        => Score(DEMOGRAPHIC_PARITY) = Zero
                  /\ Cardinality(G) = 2 =>
                        \A g, h \in G :
                            g # h =>
                                /\ Score(DEMOGRAPHIC_PARITY) = AbsDiff(rate(g), rate(h))
                                /\ (/\ rate(g)[1] = rate(g)[2]
                                    /\ rate(h)[1] = 0
                                    /\ self.threshold = DefaultThreshold)
                                      => /\ Score(DEMOGRAPHIC_PARITY) = One
                                         /\ result.bias_detected

\* the scenario of two groups with rates 1 and 0 at threshold 0.05, on a
\* batch of the largest size: score 1, bias detected
C4_Witness ==
    /\ Returned /\ Configured(DEMOGRAPHIC_PARITY) /\ OneAttr
    /\ N = MaxN
    /\ self.threshold = DefaultThreshold
    /\ Cardinality(GroupsOf(TheAttr)) = 2
    /\ \E g, h \in GroupsOf(TheAttr) :
          /\ Cardinality(Members(TheAttr, g)) >= 2
          /\ PredictedShare(Members(TheAttr, g))[1] = 0
          /\ PredictedShare(Members(TheAttr, h)) = <<1, 1>>
    /\ Score(DEMOGRAPHIC_PARITY) = One
    /\ result.bias_detected

\* C5: the equalized-odds disparity of an attribute is the larger of the
\* spread of the true-positive rates and the spread of the false-positive
\* rates of its groups, a group without positive (negative) members being
\* left out of the TPR (FPR) spread; with one protected attribute it is the
\* reported score.
C5_EqualizedOdds ==
    (Returned /\ Configured(EQUALIZED_ODDS)) =>
        /\ \A attr \in ConfiguredAttrs :
              EqualizedOddsAttr(Zero, attr, args.predictions, args.true_labels,
                                args.protected_attributes)
                  = EqualizedOddsOf(attr)
        /\ OneAttr => Score(EQUALIZED_ODDS) = EqualizedOddsOf(TheAttr)

\* a group has no positive member and another has true-positive rate 1,
\* and the score is 0: the missing rate was not taken as 0
C5_Witness ==
    /\ Returned /\ Configured(EQUALIZED_ODDS) /\ OneAttr
    /\ \E g, h \in GroupsOf(TheAttr) :
          /\ Positives(TheAttr, g) = {}
          /\ Positives(TheAttr, h) # {}
          /\ PredictedShare(Positives(TheAttr, h)) = <<1, 1>>
    /\ Score(EQUALIZED_ODDS) = Zero

\* C6: the equal-opportunity disparity of an attribute is the spread of the
\* true-positive rates of its groups with a positive member, whatever the
\* predictions of the negative members; with one protected attribute it is
\* the reported score.
C6_EqualOpportunity ==
    (Returned /\ Configured(EQUAL_OPPORTUNITY)) =>
        /\ \A attr \in ConfiguredAttrs :
              EqualOpportunityAttr(Zero, attr, args.predictions, args.true_labels,
                                   args.protected_attributes)
                  = EqualOpportunityOf(attr)
        /\ OneAttr => Score(EQUAL_OPPORTUNITY) = EqualOpportunityOf(TheAttr)

\* the false-positive rates of two groups differ by 1 and there are
\* positive members: the equalized-odds score is 1, the equal-opportunity
\* score is the spread of the true-positive rates, 0
C6_Witness ==
    /\ Returned /\ Configured(EQUAL_OPPORTUNITY) /\ OneAttr
    /\ SpreadOf(FPRs(TheAttr)) = One
    /\ TPRs(TheAttr) # {}
    /\ Score(EQUAL_OPPORTUNITY) = Zero
    /\ Score(EQUALIZED_ODDS) = One

\* the largest of a non-empty set of rationals
Largest(R) == CHOOSE r \in R : \A q \in R : QLe(q, r)

\* the detector with the first k protected attributes only
FirstAttrs(k) ==
    [self EXCEPT !.protected_attributes = SubSeq(self.protected_attributes, 1, k)]

\* C7: the score of every metric is the largest of the disparities of the
\* configured protected attributes (0 when none is configured), and is
\* never below the score the same
\* batch gets from the detector before its last attributes were added.
C7_MaxOverAttributes ==
    Returned =>
        \A m \in MetricSet :
            /\ Score(m) = IF ConfiguredAttrs = {} THEN Zero
                          ELSE Largest({DisparityOf(m, attr) : attr \in ConfiguredAttrs})
            /\ \A k \in 1..(Len(self.protected_attributes) - 1) :
                  QLe(_compute_bias_metric(FirstAttrs(k), m, args.predictions,
                                           args.true_labels,
                                           args.protected_attributes,
                                           args.prediction_probabilities),
                      Score(m))

\* two protected attributes with different non-zero demographic-parity
\* disparities, the second the larger one
C7_Witness ==
    /\ Returned /\ Configured(DEMOGRAPHIC_PARITY)
    /\ self.protected_attributes = <<"a", "b">>
    /\ DemographicParityOf("a") = Q(1, 2)
    /\ DemographicParityOf("b") = One
    /\ Score(DEMOGRAPHIC_PARITY) = One

\* C8: a call on a well-formed batch without probabilities, calibration
\* being configured, returns a report; the report has the calibration score
\* 0, and its overall score is the sum of the other scores divided by the
\* number of all configured metrics, calibration counted.
C8_CalibrationSkipped ==
    (/\ result # Pending
     /\ Configured(CALIBRATION)
     /\ ~args.prediction_probabilities.given
     /\ ~Malformed) =>
        /\ Returned
        /\ HasKey(result.metric_scores, CALIBRATION)
        /\ Score(CALIBRATION) = Zero
        /\ IsTimes(ScoreSum(result.metric_scores, MetricSet \ {CALIBRATION}),
                   result.overall_bias_score, Len(self.metrics))

\* calibration skipped beside four metrics of which three have score 1:
\* the overall score is 3/5, not 3/4
C8_Witness ==
    /\ Returned
    /\ self.metrics = BiasMetric
    /\ ~args.prediction_probabilities.given
    /\ Score(CALIBRATION) = Zero
    /\ Cardinality({m \in MetricSet : Score(m) = One}) = 3
    /\ result.overall_bias_score = Q(3, 5)

\* C9: with probabilities, the calibration disparity of an attribute is max
\* minus min, over its groups with a filled bin, of the mean over the filled
\* bins [b/10, (b+1)/10), b = 0..9, of |mean probability - mean label|: it
\* is the calibration score reported for a detector with that one protected
\* attribute.
C9_Calibration ==
    (/\ Returned
     /\ Configured(CALIBRATION)
     /\ args.prediction_probabilities.given
     /\ OneAttr) =>
        Score(CALIBRATION) = CalibrationOf(TheAttr)

\* one group fills two bins, another group fills a bin, and the group
\* errors differ
C9_Witness ==
    /\ Returned /\ Configured(CALIBRATION) /\ OneAttr
    /\ args.prediction_probabilities.given
    /\ \E g, h \in GroupsOf(TheAttr) :
          /\ g # h
          /\ Cardinality(FilledBins(TheAttr, g)) = 2
          /\ FilledBins(TheAttr, h) # {}
    /\ Score(CALIBRATION) # Zero

InUnitInterval(v) == 0 <= v[1] /\ v[1] <= v[2]

\* C10: every score of metric_scores and of group_scores of a report lies
\* in [0, 1].
C10_ScoresInUnitInterval ==
    Returned =>
        /\ \A i \in 1..Len(result.metric_scores) :
              InUnitInterval(result.metric_scores[i][2])
        /\ \A i \in 1..Len(result.group_scores) :
              InUnitInterval(result.group_scores[i][2])

\* a batch of the largest size with probabilities: a metric score of 1, a
\* calibration score and a group rate strictly between 0 and 1
C10_Witness ==
    /\ Returned /\ N = MaxN
    /\ args.prediction_probabilities.given
    /\ \E i \in 1..Len(result.metric_scores) : result.metric_scores[i][2] = One
    /\ Configured(CALIBRATION)
    /\ Score(CALIBRATION) # Zero /\ Score(CALIBRATION) # One
    /\ \E i \in 1..Len(result.group_scores) :
          result.group_scores[i][2] \notin {Zero, One}

(***************************************************************************)
(* Attributes with one group, recommendations, the default metrics.        *)
(***************************************************************************)
\* the configured attributes whose column has at least two distinct values
Varied == {attr \in ConfiguredAttrs : Cardinality(GroupsOf(attr)) >= 2}

\* C11: an attribute whose column has one distinct value takes no part in a
\* metric: every score is the largest disparity of the attributes with two
\* or more values, and 0 when there is none (so when the only configured
\* attribute has one value).
C11_SingleGroupExcluded ==
    Returned =>
        \A m \in MetricSet :
            Score(m) = IF Varied = {} THEN Zero
                       ELSE Largest({DisparityOf(m, attr) : attr \in Varied})

\* the only attribute has one value, its group has the largest size and a
\* positive rate strictly between 0 and 1, and every score is 0
C11_Witness ==
    /\ Returned /\ OneAttr
    /\ N = MaxN
    /\ Cardinality(GroupsOf(TheAttr)) = 1
    /\ \E i, j \in 1..N : args.predictions[i] = 1 /\ args.predictions[j] = 0
    /\ \E i, j \in 1..N : args.true_labels[i] = 1 /\ args.true_labels[j] = 0
    /\ self.metrics = BiasMetric
    /\ \A m \in MetricSet : Score(m) = Zero

\* the metrics whose own score exceeds the threshold
Exceeding == {m \in MetricSet : QGt(Score(m), self.threshold)}

Range(seq) == {seq[i] : i \in 1..Len(seq)}

\* the positions of the recommendations specific to metric m
SpecificAt(m) ==
    {i \in 1..Len(result.recommendations) :
        result.recommendations[i] \in Range(MetricRecommendation(m))}

\* the recommendations end with the general ones, after k others
GeneralAfter(k) ==
    /\ Len(result.recommendations) = k + Len(GeneralRecommendations)
    /\ SubSeq(result.recommendations, k + 1, Len(result.recommendations))
          = GeneralRecommendations

\* C13 as stated: every metric whose own score exceeds the threshold has one
\* recommendation specific to it, and when there is such a metric the
\* general recommendations follow the specific ones.
C13_SpecificPerExceedingMetric ==
    Returned =>
        /\ \A m \in Exceeding : Cardinality(SpecificAt(m)) = 1
        /\ Exceeding # {} => GeneralAfter(Cardinality(Exceeding))

\* the metrics with a branch in _generate_recommendations
WithBranch == {m \in MetricSet : MetricRecommendation(m) # <<>>}

\* C13 amended: when the overall score exceeds the threshold
\* (bias_detected), every metric other than counterfactual fairness whose
\* own score exceeds the threshold has one recommendation specific to it,
\* these come in the order of the metrics and nothing else precedes the
\* general recommendations, which follow them; counterfactual fairness has
\* no specific recommendation; when the overall score does not exceed the
\* threshold the recommendations are the notice alone, whatever the scores
\* of the metrics.
C13_SpecificWhenBiasDetected ==
    Returned =>
        /\ WithBranch = MetricSet \ {COUNTERFACTUAL_FAIRNESS}
        /\ result.bias_detected =>
              /\ \A m \in Exceeding \cap WithBranch : Cardinality(SpecificAt(m)) = 1
              /\ \A m \in MetricSet \ (Exceeding \cap WithBranch) : SpecificAt(m) = {}
              /\ GeneralAfter(Cardinality(Exceeding \cap WithBranch))
              /\ \A i, j \in 1..Len(self.metrics) :
                    (/\ i < j
                     /\ self.metrics[i] \in Exceeding \cap WithBranch
                     /\ self.metrics[j] \in Exceeding \cap WithBranch)
                        => \A p \in SpecificAt(self.metrics[i]) :
                               \A q \in SpecificAt(self.metrics[j]) : p < q
        /\ ~result.bias_detected => result.recommendations = <<NoBiasNotice>>

\* bias detected with counterfactual fairness and two metrics with a branch
\* above the threshold: two specific recommendations, then the general ones
C13_Witness ==
    /\ Returned /\ result.bias_detected
    /\ COUNTERFACTUAL_FAIRNESS \in Exceeding
    /\ Cardinality(Exceeding \cap WithBranch) = 2
    /\ Len(result.recommendations) = 2 + Len(GeneralRecommendations)

\* the detector is the one the construction without metrics gives
DefaultMetrics ==
    self = __init__(self.model_name, self.protected_attributes, self.threshold, <<>>)

\* the four metrics the claim names
FourMetrics == {DEMOGRAPHIC_PARITY, EQUALIZED_ODDS, EQUAL_OPPORTUNITY, CALIBRATION}

\* C14 as stated: a detector constructed without metrics reports exactly
\* the four metrics demographic parity, equalized odds, equal opportunity
\* and calibration, and the overall score is the mean of these four scores.
C14_DefaultFourMetrics ==
    (Returned /\ DefaultMetrics) =>
        /\ Range(Keys(result.metric_scores)) = FourMetrics
        /\ IsTimes(ScoreSum(result.metric_scores, FourMetrics),
                   result.overall_bias_score, 4)

\* C14 amended: a detector constructed without metrics reports exactly the
\* five metrics of BiasMetric, in their order (demographic parity, equalized
\* odds, equal opportunity, calibration, counterfactual fairness), and the
\* overall score is the mean of these five scores.
C14_DefaultAllMetrics ==
    (Returned /\ DefaultMetrics) =>
        /\ Keys(result.metric_scores) = BiasMetric
        /\ Range(BiasMetric) = FourMetrics \cup {COUNTERFACTUAL_FAIRNESS}
        /\ Len(result.metric_scores) = 5
        /\ IsTimes(ScoreSum(result.metric_scores, Range(BiasMetric)),
                   result.overall_bias_score, 5)

\* a default detector whose counterfactual-fairness score is 1 while another
\* score is not: the mean of five differs from the mean of the four
C14_Witness ==
    /\ Returned /\ DefaultMetrics
    /\ Score(COUNTERFACTUAL_FAIRNESS) = One
    /\ Score(EQUAL_OPPORTUNITY) = Zero
    /\ ~IsTimes(ScoreSum(result.metric_scores, FourMetrics),
                result.overall_bias_score, 4)


(***************************************************************************)
(* The arguments of the constructor.                                       *)
(***************************************************************************)
\* C15: no detector is constructed with an empty list of protected
\* attributes: the constructor fails on it.
C15_EmptyAttributesRejected == self.protected_attributes # <<>>

\* C16: no detector is constructed with a negative threshold: the
\* constructor fails on it, and the threshold of every detector is at
\* least 0.
C16_ThresholdNotNegative == QGe(self.threshold, Zero)


(***************************************************************************)
(* Two calls on one detector.                                              *)
(***************************************************************************)
\* the second call was made with the arguments of the first one
SameInputs == pc = "called_twice" /\ args = earlier.args

\* an outcome without the time of the call in its metadata
WithoutTimestamp(r) ==
    IF r.kind = "return" THEN [r EXCEPT !.metadata.timestamp = 0] ELSE r

RateOf(m, attr, g) ==
    IF m = DEMOGRAPHIC_PARITY
    THEN PredictedShare(Members(attr, g))
    ELSE IF m \in {EQUALIZED_ODDS, EQUAL_OPPORTUNITY} /\ Positives(attr, g) # {}
    THEN PredictedShare(Positives(attr, g))
    ELSE <<0, 1>>

\* the (attribute, group, metric) triples of the batch; every group of a
\* column has a member
Triples ==
    UNION {{<<attr, g, m>> : g \in GroupsOf(attr), m \in MetricSet} :
              attr \in ConfiguredAttrs}

Fresh == __init__(self.model_name, self.protected_attributes, self.threshold,
                  self.metrics)

\* the step is a call of detect_bias
IsCall == pc' # pc /\ pc' \in {"called", "called_twice"}

SmallBatches == {batch \in Batches : Len(batch.predictions) <= 2}

\* the outcome of detector.detect_bias on a batch at the time of the clock
ReportOf(detector, batch) ==
    detect_bias(detector, batch.predictions, batch.true_labels,
                batch.protected_attributes, batch.prediction_probabilities,
                clock)

\* C20: the detector load_detector builds from the file save_detector wrote
\* has the model name, the protected attributes, the threshold and the
\* list of metrics, in its order, of the detector saved, and the outcome of
\* detect_bias on a batch is the same for both.
C20_RoundTrip ==
    loaded.kind = "return" =>
        /\ loaded.detector.model_name = self.model_name
        /\ loaded.detector.protected_attributes = self.protected_attributes
        /\ loaded.detector.threshold = self.threshold
        /\ loaded.detector.metrics = self.metrics
        /\ \A batch \in SmallBatches :
              ReportOf(loaded.detector, batch) = ReportOf(self, batch)

\* a detector with threshold 0.5 and the metrics calibration and
\* demographic parity, in this order, saved and loaded
C20_Witness ==
    /\ pc = "loaded"
    /\ file.exists
    /\ file.config.metrics = <<"calibration", "demographic_parity">>
    /\ loaded.kind = "return"
    /\ loaded.detector.metrics = <<CALIBRATION, DEMOGRAPHIC_PARITY>>
    /\ loaded.detector.threshold = Q(1, 2)


(***************************************************************************)
(* A skipped metric and the metadata of the report.                        *)
(***************************************************************************)
\* calibration was requested and skipped: the call had no probabilities
Skipped ==
    Returned /\ Configured(CALIBRATION) /\ ~args.prediction_probabilities.given

\* the metadata of every report of the detector on a batch of N samples at
\* the time of the call, with or without probabilities
PlainMetadata ==
    [model_name |-> self.model_name,
     sample_size |-> N,
     protected_attributes |-> self.protected_attributes,
     metrics_computed |-> MetricValues(self.metrics),
     threshold |-> self.threshold,
     timestamp |-> result.metadata.timestamp]

\* C21 as stated: when calibration is skipped, the metadata of the report
\* tells so: it is not the metadata a report has when nothing is skipped.
C21_SkipSurfaced == Skipped => result.metadata # PlainMetadata

\* C21: when calibration is skipped, its score in the report is 0, and the
\* metadata is the metadata of a report without a skip: model name, sample
\* size, protected attributes, threshold, time, and metrics_computed
\* listing every configured metric, calibration included.
C21_SkipNotSurfaced ==
    Skipped =>
        /\ Score(CALIBRATION) = Zero
        /\ result.metadata = PlainMetadata
        /\ CALIBRATION \in Range(result.metadata.metrics_computed)

\* a full batch without probabilities with bias in another metric
C21_Witness ==
    /\ Skipped
    /\ N = MaxN
    /\ Score(DEMOGRAPHIC_PARITY) # Zero
    /\ result.bias_detected


(***************************************************************************)
(* Relations between the scores of one report.                             *)
(***************************************************************************)
\* C27: in every report the equal-opportunity score is at most the
\* equalized-odds score, and the counterfactual-fairness score is the
\* demographic-parity score.
C27_ScoresRelated ==
    Returned =>
        /\ (Configured(EQUAL_OPPORTUNITY) /\ Configured(EQUALIZED_ODDS)) =>
              QLe(Score(EQUAL_OPPORTUNITY), Score(EQUALIZED_ODDS))
        /\ (Configured(COUNTERFACTUAL_FAIRNESS) /\ Configured(DEMOGRAPHIC_PARITY)) =>
              Score(COUNTERFACTUAL_FAIRNESS) = Score(DEMOGRAPHIC_PARITY)

\* a full batch whose equal-opportunity score is below its equalized-odds
\* score and whose demographic-parity score is not 0
C27_Witness ==
    /\ Returned
    /\ N = MaxN
    /\ Configured(EQUAL_OPPORTUNITY) /\ Configured(EQUALIZED_ODDS)
    /\ Configured(COUNTERFACTUAL_FAIRNESS) /\ Configured(DEMOGRAPHIC_PARITY)
    /\ QLt(Score(EQUAL_OPPORTUNITY), Score(EQUALIZED_ODDS))
    /\ Score(COUNTERFACTUAL_FAIRNESS) # Zero


(***************************************************************************)
(* Attribute and group names, and counterfactual fairness alone.           *)
(***************************************************************************)
\* C26: group_scores has as many entries as the batch has (attribute,
\* group, metric) triples: no two triples share a key.
C26_OneEntryPerTriple ==
    Returned => Len(result.group_scores) = Cardinality(Triples)

\* C28 as stated: whenever bias is detected, the recommendations are one or
\* more metric-specific recommendations followed by the general ones.
C28_SpecificWhenDetected ==
    (Returned /\ result.bias_detected) =>
        /\ \E m \in MetricSet : 1 \in SpecificAt(m)
        /\ \E k \in 1..Len(self.metrics) : GeneralAfter(k)

\* C28: whenever bias is detected and a metric other than counterfactual
\* fairness exceeds the threshold, the recommendations are one or more
\* metric-specific recommendations followed by the general ones; when
\* bias is detected and no other metric exceeds it, they are the general
\* ones alone.
C28_SpecificUnlessCounterfactual ==
    (Returned /\ result.bias_detected) =>
        IF Exceeding \ {COUNTERFACTUAL_FAIRNESS} # {}
        THEN /\ \E m \in MetricSet : 1 \in SpecificAt(m)
             /\ \E k \in 1..Len(self.metrics) : GeneralAfter(k)
        ELSE result.recommendations = GeneralRecommendations

\* bias detected by demographic parity alone: its recommendation, then the
\* general ones
C28_Witness ==
    /\ Returned /\ result.bias_detected
    /\ N = MaxN
    /\ MetricSet = {DEMOGRAPHIC_PARITY}
    /\ result.recommendations
          = MetricRecommendation(DEMOGRAPHIC_PARITY) \o GeneralRecommendations


(***************************************************************************)
(* The computer-vision example: main and the stages of                     *)
(* ComputerVisionModel.  What the libraries compute (the data, the         *)
(* training, the rates) is an input of each stage; a stage that calls a    *)
(* library may raise.  pipeline holds                                      *)
(*   pc: the stage main runs next, or "returned";                          *)
(*   model, metrics: self.model and self.metrics of cv_model;              *)
(*   bias_metrics: the dict returned by detect_bias;                       *)
(*   stages: the stages main has run, in order;                            *)
(*   files: the files written;                                             *)
(*   data_valid: what validate_data returned ("None" before it);           *)
(*   failed: the stage at which main left its try block ("" if none);      *)
(*   exit_code: the value main returned, when pc is "returned".            *)
(***************************************************************************)
\* the stages of main, in the order of its body
Stages ==
    <<"prepare_data", "validate_data", "train_model", "evaluate_model",
      "detect_bias", "save_model", "model_card">>

\* the rates a library reports
Rates == {<<0, 1>>, <<1, 2>>, <<1, 1>>}

\* the fairness limit of detect_bias: demographic_parity < 0.1
FairnessLimit == <<1, 10>>

QMul(a, b) == Q(a[1] * b[1], a[2] * b[2])
QDiv(a, b) == Q(a[1] * b[2], a[2] * b[1])

\* cv_model = ComputerVisionModel("cv-classifier", "1.0.0"), before the try
NewPipeline ==
    [pc |-> "prepare_data", model |-> "None", metrics |-> <<>>,
     bias_metrics |-> <<>>, stages |-> <<>>, files |-> {},
     data_valid |-> "None", failed |-> "", exit_code |-> 0]

InitPipeline ==
    /\ self = [model_name |-> "cv-classifier", version |-> "1.0.0"]
    /\ args = NoArgs
    /\ result = Pending
    /\ clock = 0
    /\ earlier = NoCall
    /\ file = NoFile
    /\ loaded = Pending
    /\ pc = "main"
    /\ pipeline = NewPipeline
    /\ validator = NoValidator

\* the stage has run and main goes on to the next one
Completed(pl, stage, next) ==
    [pl EXCEPT !.stages = Append(@, stage), !.pc = next]

\* the stage has run and raised: except Exception: return 1
Excepted(pl, stage) ==
    [pl EXCEPT !.stages = Append(@, stage), !.failed = stage,
               !.pc = "returned", !.exit_code = 1]

\* cv_model.prepare_data("/tmp/data")
PrepareData ==
    /\ pipeline.pc = "prepare_data"
    /\ \E outcome \in {"ok", "raise"} :
        pipeline' = IF outcome = "ok"
                    THEN Completed(pipeline, "prepare_data", "validate_data")
                    ELSE Excepted(pipeline, "prepare_data")
    /\ UNCHANGED <<self, args, result, clock, earlier, file, loaded, pc, validator>>

\* ComputerVisionModel.validate_data: True when the validation succeeds,
\* False when it fails or when anything in it raises
cv_validate_data(ge) == ge = "success"

\* main going on to train the model whatever validate_data returned
ValidateDataIgnored ==
    /\ pipeline.pc = "validate_data"
    /\ \E ge \in {"success", "failure", "error"} :
        pipeline' = [Completed(pipeline, "validate_data", "train_model")
                        EXCEPT !.data_valid = ToString(cv_validate_data(ge))]
    /\ UNCHANGED <<self, args, result, clock, earlier, file, loaded, pc, validator>>

\* if not cv_model.validate_data(X_train, y_train): raise ValueError
ValidateData ==
    /\ pipeline.pc = "validate_data"
    /\ \E ge \in {"success", "failure", "error"} :
        pipeline' = [IF cv_validate_data(ge)
                     THEN Completed(pipeline, "validate_data", "train_model")
                     ELSE Excepted(pipeline, "validate_data")
                        EXCEPT !.data_valid = ToString(cv_validate_data(ge))]
    /\ UNCHANGED <<self, args, result, clock, earlier, file, loaded, pc, validator>>

\* train_test_split and cv_model.train_model: raises before the model is
\* built, or after (fit or the logging fails), or completes
TrainModel ==
    /\ pipeline.pc = "train_model"
    /\ \E outcome \in {"ok", "raise", "raise_built"} :
        pipeline' =
            CASE outcome = "ok" ->
                    [Completed(pipeline, "train_model", "evaluate_model")
                        EXCEPT !.model = "trained"]
              [] outcome = "raise" -> Excepted(pipeline, "train_model")
              [] OTHER ->
                    [Excepted(pipeline, "train_model") EXCEPT !.model = "built"]
    /\ UNCHANGED <<self, args, result, clock, earlier, file, loaded, pc, validator>>

\* self.metrics of evaluate_model from the rates model.evaluate returns
EvaluatedMetrics(accuracy, precision, recall) ==
    <<<<"test_accuracy", accuracy>>, <<"test_precision", precision>>,
      <<"test_recall", recall>>,
      <<"test_f1_score",
        QDiv(QMul(<<2, 1>>, QMul(precision, recall)), QAdd(precision, recall))>>>>

\* cv_model.evaluate_model(X_test, y_test): predict or evaluate raises,
\* or the F1 score divides by precision + recall = 0, or it completes
EvaluateModel ==
    /\ pipeline.pc = "evaluate_model"
    /\ \/ pipeline' = Excepted(pipeline, "evaluate_model")
       \/ \E accuracy \in Rates, precision \in Rates, recall \in Rates :
            pipeline' =
                IF QAdd(precision, recall) = Zero
                THEN Excepted(pipeline, "evaluate_model")
                ELSE [Completed(pipeline, "evaluate_model", "detect_bias")
                        EXCEPT !.metrics = EvaluatedMetrics(accuracy, precision, recall)]
    /\ UNCHANGED <<self, args, result, clock, earlier, file, loaded, pc, validator>>

\* the bias metrics of the groups with samples in both sets, and the
\* fairness metrics when both groups have them
BiasMetrics(present, acc) ==
    LET G[i \in 0..Len(present)] ==
            IF i = 0 THEN <<>>
            ELSE LET group == present[i]
                 IN  DictSet(DictSet(G[i - 1], group \o "_train_accuracy", acc[group]),
                             group \o "_test_accuracy", acc[group])
        bias_metrics == G[Len(present)]
        demographic_parity == AbsDiff(Get(bias_metrics, "group_a_test_accuracy"),
                                      Get(bias_metrics, "group_b_test_accuracy"))
    IN  IF Len(bias_metrics) >= 4
        THEN DictSet(DictSet(bias_metrics, "demographic_parity_difference",
                             demographic_parity),
                     "is_fair", QLt(demographic_parity, FairnessLimit))
        ELSE bias_metrics

\* the groups of detect_bias with samples in the train set and the test set
GroupLists == {<<"group_a", "group_b">>, <<"group_a">>, <<"group_b">>, <<>>}

\* ComputerVisionModel.detect_bias: the dict it returns; a failure inside
\* the try becomes {'error': str(e)}
cv_detect_bias(failed, present, acc) ==
    IF failed THEN <<<<"error", "str(e)">>>> ELSE BiasMetrics(present, acc)

\* detect_bias without its except clause: the exception reaches main
DetectBiasPropagating ==
    /\ pipeline.pc = "detect_bias"
    /\ \E failed \in BOOLEAN, present \in GroupLists,
          acc \in [{"group_a", "group_b"} -> Rates] :
        pipeline' =
            IF failed THEN Excepted(pipeline, "detect_bias")
            ELSE [Completed(pipeline, "detect_bias", "save_model")
                    EXCEPT !.bias_metrics = cv_detect_bias(failed, present, acc)]
    /\ UNCHANGED <<self, args, result, clock, earlier, file, loaded, pc, validator>>

\* bias_metrics = cv_model.detect_bias(X_train, X_test)
CvDetectBias ==
    /\ pipeline.pc = "detect_bias"
    /\ \E failed \in BOOLEAN, present \in GroupLists,
          acc \in [{"group_a", "group_b"} -> Rates] :
        pipeline' = [Completed(pipeline, "detect_bias", "save_model")
                        EXCEPT !.bias_metrics = cv_detect_bias(failed, present, acc)]
    /\ UNCHANGED <<self, args, result, clock, earlier, file, loaded, pc, validator>>

\* cv_model.save_model(model_path): raises before anything is written, or
\* after model.save and before metadata.json is written, or completes
SaveModel ==
    /\ pipeline.pc = "save_model"
    /\ \E outcome \in {"ok", "raise", "raise_saved"} :
        pipeline' =
            CASE outcome = "ok" ->
                    [Completed(pipeline, "save_model", "model_card")
                        EXCEPT !.files = @ \cup {"model.h5", "metadata.json"}]
              [] outcome = "raise" -> Excepted(pipeline, "save_model")
              [] OTHER ->
                    [Excepted(pipeline, "save_model")
                        EXCEPT !.files = @ \cup {"model.h5"}]
    /\ UNCHANGED <<self, args, result, clock, earlier, file, loaded, pc, validator>>

\* generate_model_card and the write of MODEL_CARD.md, then return 0
WriteModelCard ==
    /\ pipeline.pc = "model_card"
    /\ \E outcome \in {"ok", "raise"} :
        pipeline' =
            IF outcome = "ok"
            THEN [Completed(pipeline, "model_card", "returned")
                    EXCEPT !.files = @ \cup {"MODEL_CARD.md"}, !.exit_code = 0]
            ELSE Excepted(pipeline, "model_card")
    /\ UNCHANGED <<self, args, result, clock, earlier, file, loaded, pc, validator>>

NextPipeline ==
    \/ PrepareData
    \/ ValidateData
    \/ TrainModel
    \/ EvaluateModel
    \/ CvDetectBias
    \/ SaveModel
    \/ WriteModelCard

SpecPipeline == InitPipeline /\ [][NextPipeline]_vars


(***************************************************************************)
(* The run of main.                                                        *)
(***************************************************************************)
\* main has returned
MainReturned == pipeline.pc = "returned"

\* C22: main runs its stages in the order prepare_data, validate_data,
\* train_model, evaluate_model, detect_bias, save_model, model card, none
\* skipped; it returns 0 only when all seven have run and completed; once
\* validate_data returns False or a stage raises, main has returned 1 and
\* that stage is the last one run; after a failed validation no model is
\* built and no file is written.
C22_StagesInOrder ==
    /\ Len(pipeline.stages) <= Len(Stages)
    /\ \A i \in 1..Len(pipeline.stages) : pipeline.stages[i] = Stages[i]
    /\ ~MainReturned => pipeline.pc = Stages[Len(pipeline.stages) + 1]
    /\ (MainReturned /\ pipeline.exit_code = 0) =>
          /\ pipeline.stages = Stages
          /\ pipeline.failed = ""
          /\ pipeline.data_valid = "TRUE"
          /\ pipeline.model = "trained"
          /\ pipeline.files = {"model.h5", "metadata.json", "MODEL_CARD.md"}
    /\ (pipeline.failed # "" \/ pipeline.data_valid = "FALSE") =>
          /\ MainReturned
          /\ pipeline.exit_code = 1
          /\ pipeline.stages[Len(pipeline.stages)] = pipeline.failed
    /\ pipeline.data_valid = "FALSE" =>
          /\ pipeline.failed = "validate_data"
          /\ pipeline.model = "None"
          /\ pipeline.files = {}

\* main returned 0 after its seven stages
C22_Witness ==
    /\ MainReturned
    /\ pipeline.exit_code = 0
    /\ Len(pipeline.stages) = Len(Stages)
    /\ "MODEL_CARD.md" \in pipeline.files

\* C23: the detect_bias stage never makes main leave its try block: every
\* step of it returns a dict to main, which goes on to save_model, and a
\* failure inside it gives the dict {'error': message}.
C23_BiasFailureContained ==
    [][pipeline.pc = "detect_bias" =>
          /\ pipeline'.pc = "save_model"
          /\ pipeline'.failed = ""
          /\ \A i \in 1..Len(pipeline'.bias_metrics) :
                pipeline'.bias_metrics[i][1] = "error"
                    => pipeline'.bias_metrics = <<<<"error", "str(e)">>>>]_vars

\* bias detection failed, save_model ran and main returned 0
C23_Witness ==
    /\ MainReturned
    /\ pipeline.exit_code = 0
    /\ HasKey(pipeline.bias_metrics, "error")
    /\ "model.h5" \in pipeline.files


(***************************************************************************)
(* MLDataValidator.create_ml_expectation_suite.  The context of the        *)
(* validator is a file context: its store maps the name of a suite to the  *)
(* expectations saved, and get_expectation_suite reads the store.  A dict  *)
(* is a list of <<key, value>>; the values of a column config and of the  *)
(* kwargs of an expectation are written as strings, None as "None".        *)
(* validator holds                                                         *)
(*   calls: the number of calls made;                                      *)
(*   suites: the store of the context;                                     *)
(*   suite_name, data_schema, now: the arguments and the time of the       *)
(*     latest call;                                                        *)
(*   before: the store before the latest call;                             *)
(*   outcome: "return" or the exception the latest call raised.            *)
(***************************************************************************)
\* d.get(k, default)
DictGet(d, k, default) == IF HasKey(d, k) THEN Get(d, k) ELSE default

ExpectationConfiguration(expectation_type, kwargs) ==
    [expectation_type |-> expectation_type, kwargs |-> kwargs]

\* the expectations of one column in _add_basic_expectations
BasicColumnExpectations(column, config) ==
    <<ExpectationConfiguration("expect_column_to_exist", <<<<"column", column>>>>)>>
    \o (IF HasKey(config, "type")
        THEN <<ExpectationConfiguration("expect_column_values_to_be_of_type",
                   <<<<"column", column>>, <<"type_", Get(config, "type")>>>>)>>
        ELSE <<>>)
    \o (IF DictGet(config, "nullable", "True") = "False"
        THEN <<ExpectationConfiguration("expect_column_values_to_not_be_null",
                   <<<<"column", column>>>>)>>
        ELSE <<>>)
    \o (IF HasKey(config, "min_value") \/ HasKey(config, "max_value")
        THEN <<ExpectationConfiguration("expect_column_values_to_be_between",
                   <<<<"column", column>>,
                     <<"min_value", DictGet(config, "min_value", "None")>>,
                     <<"max_value", DictGet(config, "max_value", "None")>>>>)>>
        ELSE <<>>)
    \o (IF HasKey(config, "allowed_values")
        THEN <<ExpectationConfiguration("expect_column_values_to_be_in_set",
                   <<<<"column", column>>,
                     <<"value_set", Get(config, "allowed_values")>>>>)>>
        ELSE <<>>)

\* _add_basic_expectations: the expectations of the suite after it
_add_basic_expectations(expectations, data_schema) ==
    LET columns == DictGet(data_schema, "columns", <<>>)
        F[i \in 0..Len(columns)] ==
            IF i = 0
            THEN Append(expectations,
                        ExpectationConfiguration("expect_table_row_count_to_be_between",
                            <<<<"min_value", "1">>, <<"max_value", "None">>>>))
            ELSE F[i - 1] \o BasicColumnExpectations(columns[i][1], columns[i][2])
    IN  F[Len(columns)]

\* the expectations of one column in the first loop of _add_ml_expectations
FeatureExpectations(column, config) ==
    IF DictGet(config, "feature_type", "None") = "numerical"
    THEN <<ExpectationConfiguration("expect_column_mean_to_be_between",
               <<<<"column", column>>,
                 <<"min_value", DictGet(config, "expected_mean_min", "None")>>,
                 <<"max_value", DictGet(config, "expected_mean_max", "None")>>>>),
           ExpectationConfiguration("expect_column_stdev_to_be_between",
               <<<<"column", column>>,
                 <<"min_value", DictGet(config, "expected_std_min", "None")>>,
                 <<"max_value", DictGet(config, "expected_std_max", "None")>>>>)>>
    ELSE <<>>

\* the expectations of the target column
TargetExpectations(target_column, target_config) ==
    IF DictGet(target_config, "task_type", "None") = "classification"
    THEN (IF DictGet(target_config, "expected_classes", "[]") # "[]"
          THEN <<ExpectationConfiguration("expect_column_values_to_be_in_set",
                     <<<<"column", target_column>>,
                       <<"value_set", Get(target_config, "expected_classes")>>>>)>>
          ELSE <<>>)
         \o <<ExpectationConfiguration(
                  "expect_column_proportion_of_unique_values_to_be_between",
                  <<<<"column", target_column>>,
                    <<"min_value", DictGet(target_config, "min_class_ratio", "0.01")>>,
                    <<"max_value", "1.0">>>>)>>
    ELSE <<>>

\* the freshness expectation, with pd.Timestamp.now() read as now
FreshnessExpectations(data_schema, now) ==
    IF HasKey(data_schema, "timestamp_column")
    THEN <<ExpectationConfiguration("expect_column_max_to_be_between",
               <<<<"column", Get(data_schema, "timestamp_column")>>,
                 <<"min_value", ToString(now) \o " - "
                                \o DictGet(data_schema, "max_data_age_days", "30")
                                \o " days">>,
                 <<"max_value", ToString(now)>>>>)>>
    ELSE <<>>

DuplicateExpectations(data_schema) ==
    IF DictGet(data_schema, "check_duplicates", "True") = "True"
    THEN <<ExpectationConfiguration("expect_table_row_count_to_equal_other_table",
               <<<<"other_table_name", "deduplicated_table">>>>)>>
    ELSE <<>>

\* _add_ml_expectations: the expectations of the suite after it, or the
\* KeyError of data_schema["columns"][target_column]
_add_ml_expectations(expectations, data_schema, now) ==
    LET columns == DictGet(data_schema, "columns", <<>>)
        F[i \in 0..Len(columns)] ==
            IF i = 0 THEN expectations
            ELSE F[i - 1] \o FeatureExpectations(columns[i][1], columns[i][2])
        target_column == DictGet(data_schema, "target_column", "None")
    IN  IF target_column # "None"
           /\ (~HasKey(data_schema, "columns") \/ ~HasKey(columns, target_column))
        THEN [kind |-> "raise", exc |-> "KeyError"]
        ELSE [kind |-> "return",
              expectations |->
                  F[Len(columns)]
                  \o (IF target_column # "None"
                      THEN TargetExpectations(target_column, Get(columns, target_column))
                      ELSE <<>>)
                  \o FreshnessExpectations(data_schema, now)
                  \o DuplicateExpectations(data_schema)]

\* create_ml_expectation_suite that keeps the expectations of the suite it
\* loaded
CreateWithoutClearing(suites, suite_name, data_schema, now) ==
    LET created == IF HasKey(suites, suite_name) THEN suites
                   ELSE DictSet(suites, suite_name, <<>>)
        suite == Get(created, suite_name)
        added == _add_ml_expectations(_add_basic_expectations(suite, data_schema),
                                      data_schema, now)
    IN  IF added.kind = "raise"
        THEN [outcome |-> added.exc, suites |-> created]
        ELSE [outcome |-> "return",
              suites |-> DictSet(created, suite_name, added.expectations)]

\* create_ml_expectation_suite: the outcome of the call and the store after
\* it.  create_expectation_suite puts a new, empty suite into the store;
\* save_expectation_suite is not reached when _add_ml_expectations raises.
create_ml_expectation_suite(suites, suite_name, data_schema, now) ==
    LET created == IF HasKey(suites, suite_name) THEN suites
                   ELSE DictSet(suites, suite_name, <<>>)
        suite == <<>>
        added == _add_ml_expectations(_add_basic_expectations(suite, data_schema),
                                      data_schema, now)
    IN  IF added.kind = "raise"
        THEN [outcome |-> added.exc, suites |-> created]
        ELSE [outcome |-> "return",
              suites |-> DictSet(created, suite_name, added.expectations)]

\* the names of the suites
SuiteNames == {"s", "t"}

\* the schemas: a numerical feature; the same with a classification target
\* and without the duplicate check; a timestamp column; a target column
\* that is no column; the empty schema
Schemas ==
    <<<<<<"columns",
          <<<<"x", <<<<"type", "float64">>, <<"nullable", "False">>,
                     <<"min_value", "0.0">>, <<"max_value", "1.0">>,
                     <<"feature_type", "numerical">>,
                     <<"expected_mean_min", "0.4">>>>>>>>>>>>,
      <<<<"columns",
          <<<<"x", <<<<"type", "float64">>, <<"feature_type", "numerical">>>>>>,
            <<"target", <<<<"type", "int64">>, <<"allowed_values", "[0, 1]">>,
                          <<"task_type", "classification">>,
                          <<"expected_classes", "[0, 1]">>,
                          <<"min_class_ratio", "0.1">>>>>>>>>>,
        <<"target_column", "target">>,
        <<"check_duplicates", "False">>>>,
      <<<<"columns", <<<<"ts", <<<<"type", "datetime64[ns]">>>>>>>>>>,
        <<"timestamp_column", "ts">>,
        <<"max_data_age_days", "7">>>>,
      <<<<"columns", <<<<"x", <<<<"type", "float64">>>>>>>>>>,
        <<"target_column", "target">>>>,
      <<>>>>

NewValidator ==
    [pc |-> "constructed", calls |-> 0, suites |-> <<>>, before |-> <<>>,
     suite_name |-> "", data_schema |-> <<>>, now |-> 0, outcome |-> "none"]

InitValidator ==
    /\ self = [context_root_dir |-> "."]
    /\ args = NoArgs
    /\ result = Pending
    /\ clock = 0
    /\ earlier = NoCall
    /\ file = NoFile
    /\ loaded = Pending
    /\ pc = "validator"
    /\ pipeline = NoPipeline
    /\ validator = NewValidator

\* validator.create_ml_expectation_suite(suite_name, data_schema)
CreateSuite ==
    /\ validator.calls < MaxCalls
    /\ \E suite_name \in SuiteNames, k \in 1..Len(Schemas) :
        LET call == create_ml_expectation_suite(validator.suites, suite_name,
                                                Schemas[k], clock)
        IN  validator' = [pc |-> "called", calls |-> validator.calls + 1,
                          suites |-> call.suites, before |-> validator.suites,
                          suite_name |-> suite_name, data_schema |-> Schemas[k],
                          now |-> clock, outcome |-> call.outcome]
    /\ clock' = clock + 1
    /\ UNCHANGED <<self, args, result, earlier, file, loaded, pc, pipeline>>

NextValidator == CreateSuite

SpecValidator == InitValidator /\ [][NextValidator]_vars

\* the store of a context without suites
NoSuites == <<>>

\* the other suite name
OtherNames == SuiteNames \ {validator.suite_name}

\* C25: after a call of create_ml_expectation_suite that returns, the suite
\* saved under its name holds the expectations the same call gives on a
\* context without suites, those of the schema of this call and none of an
\* earlier call; the suites of other names are as before the call; a call
\* that raises leaves every suite saved before it as it was.
C25_SuiteOfLastSchema ==
    validator.pc = "called" =>
        /\ validator.outcome = "return" =>
              Get(validator.suites, validator.suite_name)
                = Get(create_ml_expectation_suite(NoSuites, validator.suite_name,
                                                  validator.data_schema,
                                                  validator.now).suites,
                      validator.suite_name)
        /\ \A name \in OtherNames :
              /\ HasKey(validator.suites, name) <=> HasKey(validator.before, name)
              /\ HasKey(validator.before, name) =>
                    Get(validator.suites, name) = Get(validator.before, name)
        /\ validator.outcome # "return" =>
              \A name \in SuiteNames :
                  HasKey(validator.before, name) =>
                      Get(validator.suites, name) = Get(validator.before, name)

\* a third call on a suite saved twice before with other schemas: the suite
\* has the two expectations of the empty schema
C25_Witness ==
    /\ validator.pc = "called"
    /\ validator.calls = MaxCalls
    /\ validator.outcome = "return"
    /\ validator.data_schema = <<>>
    /\ HasKey(validator.before, validator.suite_name)
    /\ Len(Get(validator.before, validator.suite_name)) > 2
    /\ Len(Get(validator.suites, validator.suite_name)) = 2

====
